---- MODULE Spec2Model ----
(***************************************************************************)
(* Data path of osfs regular files (src/file.c): osfs_read, osfs_write and *)
(* the file_operations table that exposes them next to default_llseek.     *)
(*                                                                         *)
(* One file (one osfs_inode) is modelled together with the whole shared    *)
(* data-block region, so that an access outside the file's own block is    *)
(* visible.  Machine integers keep a width: size_t has SizeRange values    *)
(* and is unsigned, loff_t is the signed type of that width, and the sizes *)
(* are scaled down (the build has SizeRange = 2^64, BLOCK_SIZE = 4096,     *)
(* INT_MAX = 2^31-1, bytes 0..255).  The scaling keeps the order the code  *)
(* depends on:  BLOCK_SIZE <= INT_MAX <= LLONG_MAX < SizeRange / 2.        *)
(***************************************************************************)
EXTENDS Integers, Sequences, FiniteSets

\* ---------------------------------------------------------------- bounds
\* Number of values of size_t (2^64 in the build): size_t arithmetic is
\* modulo SizeRange and loff_t is the signed type of the same width.
SizeRange == 8
\* Last value of the clock.
MaxTime == 1
\* BLOCK_SIZE of osfs.h (4096 in the build), scaled down.
BLOCK_SIZE == 2
\* Number of blocks of the data region.
NumBlocks == 2

\* ------------------------------------------------------ program constants
\* -EFAULT, returned at file.c:38 and file.c:94.
EFAULT == -14
\* -ENOSPC, the failure of osfs_alloc_data_block passed on at file.c:76.
ENOSPC == -28

SIZE_MAX == SizeRange - 1               \* largest size_t
LLONG_MAX == (SizeRange \div 2) - 1     \* largest loff_t
INT_MAX == (SizeRange \div 2) - 1       \* limit of check_copy_size()

Blocks == 0 .. NumBlocks - 1            \* block numbers of the region
Addr == 0 .. NumBlocks * BLOCK_SIZE - 1 \* byte addresses of the region
Byte == {0, 1}                          \* byte values (0 .. 255 in the build)
NoByte == Cardinality(Byte)            \* no byte: a value outside Byte

Max(a, b) == IF a > b THEN a ELSE b
Min(a, b) == IF a < b THEN a ELSE b

\* Conversion of an integer to size_t (unsigned, modulo SizeRange).
ToSizeT(x) == (x + SizeRange) % SizeRange

VARIABLES
  ppos,          \* *ppos: the caller-owned file position (loff_t)
  i_blocks,      \* osfs_inode->i_blocks
  i_block,       \* osfs_inode->i_block
  i_size,        \* osfs_inode->i_size (and inode->i_size)
  i_mtime,       \* osfs_inode->__i_mtime
  i_ctime,       \* osfs_inode->__i_ctime
  dirty,         \* set by mark_inode_dirty(inode)
  data_blocks,   \* sb_info->data_blocks: the shared region, byte by byte
  block_bitmap,  \* blocks the allocator has handed out (to any file)
  now,           \* the clock read by current_time()
  stored,        \* history: per file offset, the byte the last successful
                 \* write of this file stored there (NoByte: none)
  lastw,         \* history: the most recent osfs_write call of this file
  last,          \* history: the call that has just returned, with the state
                 \* it started from; Idle once the caller has taken the result
  writers        \* unserialised osfs_write calls: per caller, where it stands
                 \* in osfs_write and what it has read and obtained so far

vars == <<ppos, i_blocks, i_block, i_size, i_mtime, i_ctime, dirty,
          data_blocks, block_bitmap, now, stored, lastw, last, writers>>

inode == <<i_blocks, i_block, i_size, i_mtime, i_ctime, dirty>>

\* ------------------------------------------------------------ user memory
\* Byte i of a caller's source buffer; seed selects the buffer's content.
SrcByte(seed, i) == (seed + i) % Cardinality(Byte)

\* Number of bytes of a caller buffer that can be accessed before the access
\* faults: none, one, or as many as any copy may ask for.
UserOk == {0, 1, INT_MAX}

\* ---------------------------------------------------------- uaccess copies
\* copy_to_user(buf, from, n): a size above INT_MAX is refused outright
\* (check_copy_size); otherwise bytes are copied until the user buffer
\* faults.  left is the return value, the number of bytes not copied.
copy_to_user(mem, from, n, ok) ==
  IF n > INT_MAX
    THEN [left |-> n, ubuf |-> <<>>, touched |-> {}]
    ELSE LET done == Min(n, ok)
         IN [left    |-> n - done,
             ubuf    |-> [i \in 1 .. done |->
                            IF from + i - 1 \in Addr THEN mem[from + i - 1]
                                                     ELSE NoByte],
             touched |-> from .. from + done - 1]

\* copy_from_user(to, buf, n): refused outright above INT_MAX; otherwise
\* bytes are copied until the user buffer faults and the rest of the n
\* destination bytes is zeroed.
copy_from_user(mem, to, seed, n, ok) ==
  IF n > INT_MAX
    THEN [left |-> n, mem |-> mem, touched |-> {}]
    ELSE LET done == Min(n, ok)
         IN [left    |-> n - done,
             mem     |-> [a \in Addr |->
                            IF a >= to /\ a < to + done
                              THEN SrcByte(seed, a - to)
                            ELSE IF a >= to + done /\ a < to + n THEN 0
                            ELSE mem[a]],
             touched |-> to .. to + n - 1]

\* ------------------------------------------------------------- allocator
\* osfs_alloc_data_block(sb_info, &osfs_inode->i_block): the possible
\* outcomes.  Success stores a block no file owns in *block_no and marks it
\* used; failure returns -ENOSPC and leaves *block_no as it was (cur).
osfs_alloc_data_block(bitmap, cur) ==
  IF Blocks \ bitmap = {}
    THEN {[ret |-> ENOSPC, block_no |-> cur, bitmap |-> bitmap]}
    ELSE {[ret |-> 0, block_no |-> b, bitmap |-> bitmap \cup {b}] :
            b \in Blocks \ bitmap}

\* The allocator was not called.
NoAlloc(bitmap, cur) == [ret |-> 0, block_no |-> cur, bitmap |-> bitmap]

\* ----------------------------------------------------------- call records
\* The state a call starts from.
Pre ==
  [ppos |-> ppos, i_blocks |-> i_blocks, i_block |-> i_block,
   i_size |-> i_size, i_mtime |-> i_mtime, i_ctime |-> i_ctime,
   dirty |-> dirty, data_blocks |-> data_blocks,
   block_bitmap |-> block_bitmap, now |-> now]

\* A call: op, the requested length, the caller's buffer (seed: the content
\* of a source buffer, ok: the bytes accessible before a fault), whether the
\* allocator was called, its return value and the block number it left in
\* osfs_inode->i_block, the length handed to the copy
\* and the copy's return value (bytes not copied), the call's return value,
\* the bytes delivered to a destination buffer, the region addresses the
\* copy accessed, and the state the call started from.
Call(op, len, seed, ok, asked, al, n, left, ret, ubuf, touched) ==
  [op |-> op, len |-> len, seed |-> seed, ok |-> ok, asked |-> asked,
   aret |-> al.ret, ablk |-> al.block_no, n |-> n, left |-> left,
   ret |-> ret, ubuf |-> ubuf, touched |-> touched, pre |-> Pre]

Idle ==
  [op |-> "idle", len |-> 0, seed |-> 0, ok |-> 0, asked |-> FALSE,
   aret |-> 0, ablk |-> 0, n |-> 0, left |-> 0, ret |-> 0, ubuf |-> <<>>,
   touched |-> {},
   pre |-> [ppos |-> 0, i_blocks |-> 0, i_block |-> 0, i_size |-> 0,
            i_mtime |-> 0, i_ctime |-> 0, dirty |-> FALSE,
            data_blocks |-> [a \in Addr |-> 0], block_bitmap |-> {},
            now |-> 0]]

\* What is remembered of a write call until the next one: its return value
\* and, if it stored bytes, where it started and what its source held.
NoWrite == [called |-> FALSE, ret |-> 0, pos0 |-> 0, seed |-> 0]
WriteRec(ret, pos, seed) ==
  IF ret > 0 THEN [called |-> TRUE, ret |-> ret, pos0 |-> pos, seed |-> seed]
             ELSE [called |-> TRUE, ret |-> ret, pos0 |-> 0, seed |-> 0]

\* ------------------------------------------------------------- osfs_read
\* Faulty variant: the end-of-file test tied to the block test.
read_eof_and(blocks, pos, size) == blocks # 0 /\ pos >= size

\* Faulty variant: the cursor never compared with the size.
read_eof_blocks(blocks, pos, size) == blocks = 0

\* file.c:27-31: nothing to read
read_eof(blocks, pos, size) == blocks = 0 \/ pos >= size

\* Faulty variant: the length cut at the block's end, not at the file's.
read_len_block(pos, len, size) ==
  IF ToSizeT(pos + len) > BLOCK_SIZE THEN ToSizeT(BLOCK_SIZE - pos) ELSE len

\* file.c:33-34
read_len(pos, len, size) ==
  IF ToSizeT(pos + len) > size THEN ToSizeT(size - pos) ELSE len

\* Faulty variant: the block number not scaled by the block size.
data_block_unscaled(blk, pos) == blk + pos

\* file.c:36 and file.c:91
data_block(blk, pos) == blk * BLOCK_SIZE + pos

\* Faulty variant: the return value of copy_to_user ignored.
read_fault_ignored(left) == FALSE

\* file.c:37: a nonzero return of copy_to_user is a fault
read_fault(left) == left # 0

osfs_read(len, ok) ==
  IF read_eof(i_blocks, ppos, i_size)
    THEN /\ last' = Call("read", len, 0, ok, FALSE,
                         NoAlloc(block_bitmap, i_block), 0, 0, 0, <<>>, {})
         /\ UNCHANGED ppos
    ELSE LET n  == read_len(ppos, len, i_size)
             cp == copy_to_user(data_blocks, data_block(i_block, ppos), n, ok)
         IN IF read_fault(cp.left)
              THEN /\ last' = Call("read", len, 0, ok, FALSE,
                                   NoAlloc(block_bitmap, i_block), n,
                                   cp.left, EFAULT, cp.ubuf, cp.touched)
                   /\ UNCHANGED ppos
              ELSE /\ ppos' = ppos + n
                   /\ last' = Call("read", len, 0, ok, FALSE,
                                   NoAlloc(block_bitmap, i_block), n,
                                   cp.left, n, cp.ubuf, cp.touched)

\* ------------------------------------------------------------ osfs_write
\* Faulty variant: a block never requested.
need_block_never(blocks) == FALSE

\* Faulty variant: a block requested by every write.
need_block_always(blocks) == TRUE

\* file.c:72
need_block(blocks) == blocks = 0

\* Faulty variant: the return value of the allocator ignored.
alloc_failed_ignored(ret) == FALSE

\* file.c:74
alloc_failed(ret) == ret # 0

\* Faulty variant: the length never cut.
write_len_unclamped(pos, len) == len

\* Faulty variant: the length cut to the block size, the cursor forgotten.
write_len_nocursor(pos, len) ==
  IF ToSizeT(pos + len) > BLOCK_SIZE THEN BLOCK_SIZE ELSE len

\* file.c:84-86
write_len(pos, len) ==
  IF ToSizeT(pos + len) > BLOCK_SIZE THEN ToSizeT(BLOCK_SIZE - pos) ELSE len

\* Faulty variant: the return value of copy_from_user ignored.
write_fault_ignored(left) == FALSE

\* file.c:92: a nonzero return of copy_from_user is a fault
write_fault(left) == left # 0

\* Faulty variant: the size always set to the cursor.
new_size_cursor(pos, size) == pos

\* Faulty variant: the size never grown.
new_size_kept(pos, size) == size

\* file.c:101-104
new_size(pos, size) == IF pos > size THEN pos ELSE size

\* file.c:107-108: current_time(inode) is read twice.  The clock may advance
\* between the reads: the values the second read may return when the first
\* returned t.
current_time(t) == IF t < MaxTime THEN {t, t + 1} ELSE {t}

\* Faulty variant: the record not marked.
mark_inode_dirty_skipped(d) == d

\* file.c:109
mark_inode_dirty(d) == TRUE

\* al: the outcome of osfs_alloc_data_block when need_block, else NoAlloc;
\* tc: the clock at the second read of current_time.
osfs_write(len, seed, ok, al, tc) ==
  LET asked == need_block(i_blocks) IN
  IF asked /\ alloc_failed(al.ret)
    THEN /\ last' = Call("write", len, seed, ok, asked, al, 0, 0, al.ret,
                         <<>>, {})
         /\ lastw' = WriteRec(al.ret, ppos, seed)
         /\ i_block' = al.block_no
         /\ block_bitmap' = al.bitmap
         /\ UNCHANGED <<ppos, i_blocks, i_size, i_mtime, i_ctime, dirty,
                        data_blocks, now>>
    ELSE LET n  == write_len(ppos, len)
             cp == copy_from_user(data_blocks, data_block(al.block_no, ppos),
                                  seed, n, ok)
         IN /\ i_blocks' = IF asked THEN 1 ELSE i_blocks
            /\ i_block' = al.block_no
            /\ block_bitmap' = al.bitmap
            /\ data_blocks' = cp.mem
            /\ IF write_fault(cp.left)
                 THEN /\ last' = Call("write", len, seed, ok, asked, al, n,
                                      cp.left, EFAULT, <<>>, cp.touched)
                      /\ lastw' = WriteRec(EFAULT, ppos, seed)
                      /\ UNCHANGED <<ppos, i_size, i_mtime, i_ctime, dirty,
                                     now>>
                 ELSE /\ ppos' = ppos + n
                      /\ i_size' = new_size(ppos + n, i_size)
                      /\ i_mtime' = now
                      /\ i_ctime' = tc
                      /\ now' = tc
                      /\ dirty' = mark_inode_dirty(dirty)
                      /\ last' = Call("write", len, seed, ok, asked, al, n,
                                      cp.left, n, <<>>, cp.touched)
                      /\ lastw' = WriteRec(n, ppos, seed)

\* ------------------------------------------- osfs_write, step by step
\* osfs_write takes no lock (file.c:60-113).  Two callers that write to one
\* file through separate open files are not serialised by anything in it;
\* each runs the steps below, interleaved with the other's.  The result of a
\* call that has returned is taken (Return) before the next step is
\* observed.
Writers == {1, 2}

\* A caller of osfs_write: the line it stands at (pc), the value of i_blocks
\* it read at file.c:72 (seen), whether it called the allocator (asked), the
\* allocator's return value (aret) and the block number it stored (got;
\* NoBlock: none).
NoBlock == NumBlocks
NotStarted ==
  [pc |-> "check", seen |-> 0, asked |-> FALSE, aret |-> 0, got |-> NoBlock]

\* file.c:72: read i_blocks and test it.
write_check(w) ==
  /\ last = Idle
  /\ writers[w].pc = "check"
  /\ writers' = [writers EXCEPT
                   ![w].seen = i_blocks,
                   ![w].pc = IF need_block(i_blocks) THEN "alloc" ELSE "copy"]
  /\ UNCHANGED <<ppos, inode, data_blocks, block_bitmap, now, stored, lastw,
                 last>>

\* file.c:73-77: the call of the allocator, which stores the block number
\* in osfs_inode->i_block, and the return of its error.
write_alloc(w) ==
  /\ last = Idle
  /\ writers[w].pc = "alloc"
  /\ \E al \in osfs_alloc_data_block(block_bitmap, i_block) :
       /\ i_block' = al.block_no
       /\ block_bitmap' = al.bitmap
       /\ writers' = [writers EXCEPT
                        ![w].asked = TRUE,
                        ![w].aret = al.ret,
                        ![w].got = IF alloc_failed(al.ret) THEN NoBlock
                                   ELSE al.block_no,
                        ![w].pc = IF alloc_failed(al.ret) THEN "done"
                                  ELSE "mark"]
  /\ UNCHANGED <<ppos, i_blocks, i_size, i_mtime, i_ctime, dirty,
                 data_blocks, now, stored, lastw, last>>

\* file.c:79
write_mark(w) ==
  /\ last = Idle
  /\ writers[w].pc = "mark"
  /\ i_blocks' = 1
  /\ writers' = [writers EXCEPT ![w].pc = "copy"]
  /\ UNCHANGED <<ppos, i_block, i_size, i_mtime, i_ctime, dirty,
                 data_blocks, block_bitmap, now, stored, lastw, last>>

\* file.c:84-112: the rest of the call, with the block number that
\* osfs_inode->i_block holds by now.  The cursor, the length and the buffer
\* are the caller's and are first read here.
write_copy(w) ==
  /\ last = Idle
  /\ writers[w].pc = "copy"
  /\ \E len \in 0 .. SIZE_MAX, seed \in Byte, ok \in UserOk :
       \E tc \in current_time(now) :
         osfs_write(len, seed, ok, NoAlloc(block_bitmap, i_block), tc)
  /\ writers' = [writers EXCEPT ![w].pc = "done"]
  /\ UNCHANGED stored

\* --------------------------------------------------------- default_llseek
\* file.c:123: the caller may set the position to any offset of loff_t.
default_llseek(off) == ppos' = off

\* ---------------------------------------------------------------- history
\* stored after a call: a write that returned a count stored its source
\* bytes at the offsets from where it started.
Store(st, call) ==
  IF call.op = "write" /\ call.ret > 0
    THEN [o \in DOMAIN st |->
            IF o >= call.pre.ppos /\ o < call.pre.ppos + call.ret
              THEN SrcByte(call.seed, o - call.pre.ppos)
              ELSE st[o]]
    ELSE st

\* ------------------------------------------------------- the state machine
\* A created file: no block, size 0.  The region holds what earlier owners
\* left in it; block 0 may belong to another file, or every block may.
Init ==
  /\ ppos = 0
  /\ i_blocks = 0
  /\ i_block = 0
  /\ i_size = 0
  /\ i_mtime = 0
  /\ i_ctime = 0
  /\ dirty = FALSE
  /\ data_blocks = [a \in Addr |-> 1]
  /\ block_bitmap \in {{}, {0}, Blocks}
  /\ now = 0
  /\ stored = [o \in 0 .. LLONG_MAX |-> NoByte]
  /\ lastw = NoWrite
  /\ last = Idle
  /\ writers = [w \in Writers |-> NotStarted]

\* Calls on one file are serialised by the caller: a call starts once the
\* result of the previous one has been taken.
Read ==
  /\ last = Idle
  /\ \E len \in 0 .. SIZE_MAX, ok \in UserOk : osfs_read(len, ok)
  /\ UNCHANGED <<inode, data_blocks, block_bitmap, now, stored, lastw,
                 writers>>

WriteCall ==
  /\ last = Idle
  /\ \E len \in 0 .. SIZE_MAX, seed \in Byte, ok \in UserOk :
       \E al \in (IF need_block(i_blocks)
                    THEN osfs_alloc_data_block(block_bitmap, i_block)
                    ELSE {NoAlloc(block_bitmap, i_block)}) :
         \E tc \in current_time(now) : osfs_write(len, seed, ok, al, tc)
  /\ UNCHANGED writers

Write == WriteCall /\ UNCHANGED stored

Llseek ==
  /\ last = Idle
  /\ \E off \in 0 .. LLONG_MAX : default_llseek(off)
  /\ UNCHANGED <<inode, data_blocks, block_bitmap, now, stored, lastw, last,
                 writers>>

\* The caller takes the result of the call.
Return ==
  /\ last # Idle
  /\ last' = Idle
  /\ UNCHANGED <<ppos, inode, data_blocks, block_bitmap, now, stored, lastw,
                 writers>>

\* The clock advances between calls.
Tick ==
  /\ last = Idle
  /\ now < MaxTime
  /\ now' = now + 1
  /\ UNCHANGED <<ppos, inode, data_blocks, block_bitmap, stored, lastw, last,
                 writers>>

Next == Read \/ Write \/ Llseek \/ Return \/ Tick

Spec == Init /\ [][Next]_vars

\* The same machine with the history of stored bytes kept.
WriteH == WriteCall /\ stored' = Store(stored, last')

NextH == Read \/ WriteH \/ Llseek \/ Return \/ Tick

SpecH == Init /\ [][NextH]_vars

\* Two unserialised writers on the created file.  Each chooses its cursor
\* (Llseek) before its copy.
NextRace ==
  \/ \E w \in Writers : write_check(w)
  \/ \E w \in Writers : write_alloc(w)
  \/ \E w \in Writers : write_mark(w)
  \/ \E w \in Writers : write_copy(w)
  \/ Llseek
  \/ Return

SpecRace == Init /\ [][NextRace]_vars

\* ------------------------------------------------------------------ claims
IsWrite == last.op = "write"
IsRead == last.op = "read"
\* The addresses of block blk.
BlockRange(blk) == blk * BLOCK_SIZE .. blk * BLOCK_SIZE + BLOCK_SIZE - 1

\* C1: a write that starts at a cursor in [0, BLOCK_SIZE) and returns a byte
\* count returns min(requested length, BLOCK_SIZE - cursor_before), for any
\* requested length.
C1_WriteClamped ==
  (IsWrite /\ last.ret >= 0 /\ last.pre.ppos >= 0
           /\ last.pre.ppos < BLOCK_SIZE)
    => last.ret = Min(last.len, BLOCK_SIZE - last.pre.ppos)

\* A write of more bytes than the block has left after the cursor was cut
\* down to what is left (the scaled 4000 + 200 > 4096 scenario).
C1_Witness ==
  /\ IsWrite
  /\ last.pre.ppos = BLOCK_SIZE - 1
  /\ last.len = BLOCK_SIZE
  /\ last.ret = 1
  /\ i_size = BLOCK_SIZE

\* C2: a write called with cursor >= BLOCK_SIZE, whatever the length, and
\* not refused by the allocator, returns 0 and changes neither the region,
\* nor the cursor, nor the size.
C2_WritePastBlockIsZero ==
  (IsWrite /\ last.pre.ppos >= BLOCK_SIZE /\ last.ret # ENOSPC)
    => /\ last.ret = 0
       /\ data_blocks = last.pre.data_blocks
       /\ ppos = last.pre.ppos
       /\ i_size = last.pre.i_size

\* C3: every region byte a read or a write accesses lies in the file's own
\* block.
C3_OwnBlockOnly ==
  (IsRead \/ IsWrite) => last.touched \subseteq BlockRange(i_block)

\* A write into block 1 that asked for more than the block has left stored
\* bytes up to the block's last address.
C3_Witness ==
  /\ IsWrite
  /\ i_block = 1
  /\ last.pre.ppos + last.len > BLOCK_SIZE
  /\ data_block(1, BLOCK_SIZE - 1) \in last.touched

\* C4: a read of an allocated file at a cursor in [0, i_size) that does not
\* fault returns min(requested length, i_size - cursor) bytes, the bytes of
\* the block from the cursor on, and advances the cursor by that count; no
\* read accesses a byte at an offset >= i_size.
C4_ReadClamped ==
  (IsRead /\ last.pre.i_blocks = 1 /\ last.pre.ppos >= 0
          /\ last.pre.ppos < last.pre.i_size)
    => /\ last.touched \subseteq
            {data_block(last.pre.i_block, o) : o \in 0 .. last.pre.i_size - 1}
       /\ last.ret # EFAULT =>
            /\ last.ret = Min(last.len, last.pre.i_size - last.pre.ppos)
            /\ ppos = last.pre.ppos + last.ret
            /\ Len(last.ubuf) = last.ret
            /\ \A i \in 1 .. last.ret :
                 last.ubuf[i] =
                   last.pre.data_blocks[data_block(last.pre.i_block,
                                                   last.pre.ppos + i - 1)]

\* A read that asked for more than the file holds after the cursor, of a
\* file smaller than its block, returned what the file holds.
C4_Witness ==
  /\ IsRead
  /\ last.pre.i_size < BLOCK_SIZE
  /\ last.pre.ppos < last.pre.i_size
  /\ last.len > last.pre.i_size - last.pre.ppos
  /\ last.ret = last.pre.i_size - last.pre.ppos

\* C5: after a write that returned n bytes from cursor c, and before any
\* other write call, a read of n bytes from cursor c that does not fault
\* returns n bytes, equal position by position to the first n bytes of the
\* write's source.
C5_RoundTrip ==
  (IsRead /\ lastw.called /\ lastw.ret > 0 /\ last.pre.ppos = lastw.pos0
          /\ last.len = lastw.ret /\ last.ret # EFAULT)
    => /\ last.ret = lastw.ret
       /\ Len(last.ubuf) = lastw.ret
       /\ \A i \in 1 .. lastw.ret :
            last.ubuf[i] = SrcByte(lastw.seed, i - 1)

\* A whole block written from a source whose bytes differ from what the
\* block held, read back from the start.
C5_Witness ==
  /\ IsRead
  /\ lastw.called
  /\ lastw.ret = BLOCK_SIZE
  /\ lastw.seed = 0
  /\ last.pre.ppos = 0
  /\ last.len = BLOCK_SIZE
  /\ last.ret = BLOCK_SIZE

\* C6: every byte a read returns is the byte the most recent successful
\* write of this file stored at that offset.
C6_ReadsWhatWasWritten ==
  (IsRead /\ last.ret > 0)
    => \A i \in 1 .. last.ret :
         last.ubuf[i] = stored[last.pre.ppos + i - 1]

\* C7: a write that needs a block and gets the allocator's failure returns
\* that failure and leaves the inode, the cursor and the region as they
\* were, with no block allocated; the read that follows returns 0 bytes.
C7_AllocationFailed ==
  /\ (IsWrite /\ last.asked /\ last.aret # 0)
       => /\ last.ret = last.aret
          /\ last.ret = ENOSPC
          /\ i_blocks = 0
          /\ i_blocks = last.pre.i_blocks
          /\ i_block = last.pre.i_block
          /\ i_size = last.pre.i_size
          /\ i_mtime = last.pre.i_mtime
          /\ i_ctime = last.pre.i_ctime
          /\ dirty = last.pre.dirty
          /\ ppos = last.pre.ppos
          /\ data_blocks = last.pre.data_blocks
          /\ last.touched = {}
  /\ (IsRead /\ lastw.called /\ lastw.ret = ENOSPC)
       => /\ last.ret = 0
          /\ last.ubuf = <<>>

\* A write of one readable byte found every block taken.
C7_Witness ==
  /\ IsWrite
  /\ last.asked
  /\ last.aret = ENOSPC
  /\ last.len = 1
  /\ last.ok >= 1
  /\ last.ret = ENOSPC

\* After the failed allocation a read of one byte returned 0.
C7_WitnessRead ==
  /\ IsRead
  /\ lastw.called
  /\ lastw.ret = ENOSPC
  /\ last.len = 1
  /\ last.ret = 0

\* C8: a write whose copy from the source buffer faults returns -EFAULT; a
\* block allocated earlier in the call stays allocated and recorded, while
\* the size, the cursor, the two times and the dirty flag are as they were.
C8_WriteCopyFault ==
  (IsWrite /\ last.left # 0)
    => /\ last.ret = EFAULT
       /\ last.asked =>
            /\ last.aret = 0
            /\ i_blocks = 1
            /\ i_block = last.ablk
            /\ i_block \in block_bitmap \ last.pre.block_bitmap
       /\ i_size = last.pre.i_size
       /\ ppos = last.pre.ppos
       /\ i_mtime = last.pre.i_mtime
       /\ i_ctime = last.pre.i_ctime
       /\ dirty = last.pre.dirty

\* The first write of a file, later than the file's creation, got a block
\* and then faulted on its source.
C8_Witness ==
  /\ IsWrite
  /\ last.asked
  /\ last.left # 0
  /\ last.n <= INT_MAX
  /\ last.pre.now > last.pre.i_mtime
  /\ ~ dirty
  /\ i_blocks = 1

\* C9: a read whose copy to the destination buffer faults returns -EFAULT
\* and leaves the cursor and the inode as they were.
C9_ReadCopyFault ==
  (IsRead /\ last.left # 0)
    => /\ last.ret = EFAULT
       /\ ppos = last.pre.ppos
       /\ i_blocks = last.pre.i_blocks
       /\ i_block = last.pre.i_block
       /\ i_size = last.pre.i_size
       /\ i_mtime = last.pre.i_mtime
       /\ i_ctime = last.pre.i_ctime
       /\ dirty = last.pre.dirty
       /\ data_blocks = last.pre.data_blocks

\* A read of two bytes the file holds faulted after the first.
C9_Witness ==
  /\ IsRead
  /\ last.n = 2
  /\ last.ok = 1
  /\ last.left = 1
  /\ last.ret = EFAULT

\* C10: a read of a file with no block returns 0 bytes at any cursor, for
\* any length and any destination buffer; it copies nothing, does not fault
\* and leaves the cursor where it was.
C10_ReadUnallocated ==
  (IsRead /\ last.pre.i_blocks = 0)
    => /\ last.ret = 0
       /\ last.left = 0
       /\ last.ubuf = <<>>
       /\ last.touched = {}
       /\ ppos = last.pre.ppos

\* A read into an inaccessible buffer, of a file with no block, at a cursor
\* past the start.
C10_Witness ==
  /\ IsRead
  /\ last.pre.i_blocks = 0
  /\ last.pre.ppos > 0
  /\ last.len > 0
  /\ last.ok = 0
  /\ last.ret = 0

\* C11: a read that starts with the cursor at or past i_size, the cursor
\* exactly at i_size included, returns 0 whether or not the file has a
\* block, hands nothing to the caller, does not call copy_to_user and
\* leaves the cursor where it was.
C11_ReadAtOrPastSize ==
  (IsRead /\ last.pre.ppos >= last.pre.i_size) =>
    /\ last.ret = 0
    /\ last.ubuf = <<>>
    /\ last.touched = {}
    /\ ppos = last.pre.ppos

\* A read of a positive length with the cursor exactly at the size of an
\* allocated, non-empty file.
C11_Witness ==
  /\ IsRead
  /\ last.pre.i_blocks = 1
  /\ last.pre.i_size > 0
  /\ last.pre.ppos = last.pre.i_size
  /\ last.len > 0
  /\ last.ret = 0

\* A read with the cursor past the size of an allocated file.
C11_WitnessPast ==
  /\ IsRead
  /\ last.pre.i_blocks = 1
  /\ last.pre.ppos > last.pre.i_size
  /\ last.len > 0
  /\ last.ret = 0

\* C12: in every state reached from a created file by reads and writes at
\* any cursor and with any length, i_size is at least 0 and at most
\* BLOCK_SIZE.
C12_SizeWithinBlock == 0 <= i_size /\ i_size <= BLOCK_SIZE

\* The file is full and a write that started past the end of the block has
\* just returned.
C12_Witness ==
  /\ IsWrite
  /\ last.pre.ppos > BLOCK_SIZE
  /\ last.len > 0
  /\ last.pre.i_size = BLOCK_SIZE
  /\ i_size = BLOCK_SIZE

\* A write that crossed the end of the block has filled the file.
C12_WitnessFilled ==
  /\ IsWrite
  /\ last.pre.ppos + last.len > BLOCK_SIZE
  /\ last.pre.i_size < BLOCK_SIZE
  /\ last.ret > 0
  /\ i_size = BLOCK_SIZE

\* C13: a write that returns a byte count has advanced the cursor by
\* exactly that count and has left i_size equal to the larger of the size
\* before and the cursor after, so the size is never smaller than before.
C13_WriteAdvancesAndGrows ==
  (IsWrite /\ last.ret >= 0) =>
    /\ ppos = last.pre.ppos + last.ret
    /\ i_size = Max(last.pre.i_size, last.pre.ppos + last.ret)
    /\ i_size >= last.pre.i_size

\* A write of fewer bytes than a block at cursor 0 of an unallocated file
\* took a block, returned the length and made it the size.
C13_Witness ==
  /\ IsWrite
  /\ last.pre.i_blocks = 0
  /\ last.pre.ppos = 0
  /\ last.len > 0
  /\ last.len < BLOCK_SIZE
  /\ last.asked
  /\ i_blocks = 1
  /\ last.ret = last.len
  /\ i_size = last.len

\* A write inside the file kept the size.
C13_WitnessKept ==
  /\ IsWrite
  /\ last.ret > 0
  /\ last.pre.ppos + last.ret < last.pre.i_size
  /\ i_size = last.pre.i_size

\* C14: with the calls on a file serialised, no step takes i_blocks from 1
\* back to 0; once i_blocks is 1 no step changes i_block, no step takes a
\* further block from the allocator and no call asks the allocator, so the
\* allocator is asked at most once for a file that got its block.
C14_AllocationOneWay ==
  [][/\ i_blocks' >= i_blocks
     /\ i_blocks = 1 =>
          /\ i_blocks' = 1
          /\ i_block' = i_block
          /\ block_bitmap' = block_bitmap
          /\ ~last'.asked]_vars

\* A write on an allocated file stored bytes without asking the allocator,
\* which still had a block to give.
C14_Witness ==
  /\ IsWrite
  /\ last.pre.i_blocks = 1
  /\ last.ret > 0
  /\ ~last.asked
  /\ i_blocks = 1
  /\ i_block = last.pre.i_block
  /\ Blocks \ block_bitmap # {}

\* C15: a write that returns a byte count, a count of 0 included, has set
\* i_mtime and i_ctime to the clock as read during the call and has marked
\* the inode dirty; a write that returns an error has changed neither the
\* two times nor the dirty mark.
C15_MetadataOnSuccessOnly ==
  IsWrite =>
    /\ last.ret >= 0 =>
         /\ i_mtime = last.pre.now
         /\ i_ctime = now
         /\ i_ctime \in current_time(i_mtime)
         /\ dirty
    /\ last.ret < 0 =>
         /\ i_mtime = last.pre.i_mtime
         /\ i_ctime = last.pre.i_ctime
         /\ dirty = last.pre.dirty

\* A write that transferred 0 bytes moved both times forward and marked a
\* clean inode.
C15_Witness ==
  /\ IsWrite
  /\ last.ret = 0
  /\ ~last.pre.dirty
  /\ last.pre.i_mtime < last.pre.now
  /\ i_mtime = last.pre.now
  /\ i_ctime >= last.pre.now
  /\ dirty

\* A write that failed left a clean inode with its old times.
C15_WitnessError ==
  /\ IsWrite
  /\ last.ret < 0
  /\ last.pre.i_mtime < last.pre.now
  /\ i_mtime = last.pre.i_mtime
  /\ ~dirty

\* C16: a read, whatever it returns, leaves i_blocks, i_block, i_size,
\* i_mtime, i_ctime, the dirty mark and every byte of the region as they
\* were; it moves the cursor only when the copy succeeded for a positive
\* number of bytes, and then by that number.
C16_ReadFrame ==
  IsRead =>
    /\ i_blocks = last.pre.i_blocks
    /\ i_block = last.pre.i_block
    /\ i_size = last.pre.i_size
    /\ i_mtime = last.pre.i_mtime
    /\ i_ctime = last.pre.i_ctime
    /\ dirty = last.pre.dirty
    /\ data_blocks = last.pre.data_blocks
    /\ ppos # last.pre.ppos =>
         /\ last.left = 0
         /\ last.ret > 0
         /\ Len(last.ubuf) = last.ret
         /\ ppos = last.pre.ppos + last.ret

\* A read that delivered bytes and moved the cursor, on a file whose last
\* write is older than the clock.
C16_Witness ==
  /\ IsRead
  /\ last.ret > 0
  /\ ppos = last.pre.ppos + last.ret
  /\ i_mtime < now
  /\ dirty

\* A read whose copy faulted left the cursor where it was.
C16_WitnessFault ==
  /\ IsRead
  /\ last.left # 0
  /\ last.ret = EFAULT
  /\ ppos = last.pre.ppos

\* Writer w has passed the test of file.c:72 and, if it went to the
\* allocator, the allocator has returned.
PastAlloc(w) == writers[w].pc \in {"mark", "copy", "done"}

\* C17: without serialisation, two writers of one unallocated file that
\* both read i_blocks == 0 both call the allocator, since nothing in
\* osfs_write keeps the second from the test while the first is between its
\* test and its i_blocks = 1; when both calls succeed two different blocks
\* are marked used and i_block names only one of them.
C17_DoubleAllocation ==
  \A a, b \in Writers :
    (a # b /\ PastAlloc(a) /\ PastAlloc(b)
       /\ writers[a].seen = 0 /\ writers[b].seen = 0) =>
      /\ writers[a].asked
      /\ writers[b].asked
      /\ (writers[a].aret = 0 /\ writers[b].aret = 0) =>
           /\ writers[a].got \in Blocks
           /\ writers[b].got \in Blocks
           /\ writers[a].got # writers[b].got
           /\ {writers[a].got, writers[b].got} \subseteq block_bitmap
           /\ i_block \in {writers[a].got, writers[b].got}

\* Both writers read i_blocks == 0, both got a block, both calls have
\* returned: two blocks are used and the file is bound to one of them.
C17_Witness ==
  \E a, b \in Writers :
    /\ a # b
    /\ writers[a].pc = "done"
    /\ writers[b].pc = "done"
    /\ writers[a].seen = 0
    /\ writers[b].seen = 0
    /\ writers[a].got \in Blocks
    /\ writers[b].got \in Blocks
    /\ writers[a].got # writers[b].got
    /\ {writers[a].got, writers[b].got} \subseteq block_bitmap
    /\ i_blocks = 1
    /\ i_block = writers[b].got

\* C18: a write of length 0 to an unallocated file, served by the
\* allocator, takes one block and sets i_blocks = 1, returns 0, and leaves
\* i_size at 0 and the cursor where it was; a read of the file it leaves
\* (allocated, size 0) returns 0.
C18_EmptyWriteAllocatesOnly ==
  /\ (IsWrite /\ last.len = 0 /\ last.pre.i_blocks = 0 /\ last.aret = 0) =>
       /\ last.asked
       /\ i_blocks = 1
       /\ block_bitmap = last.pre.block_bitmap \cup {i_block}
       /\ i_block \notin last.pre.block_bitmap
       /\ last.ret = 0
       /\ i_size = 0
       /\ ppos = last.pre.ppos
  /\ (IsRead /\ lastw.called /\ lastw.ret = 0
        /\ last.pre.i_blocks = 1 /\ last.pre.i_size = 0) =>
       last.ret = 0

\* The part of C18 the code keeps: the block is taken before the length is
\* looked at, and at cursor 0 the write returns 0 with size 0.
C18_EmptyWriteAtZero ==
  (IsWrite /\ last.len = 0 /\ last.pre.i_blocks = 0 /\ last.aret = 0) =>
    /\ last.asked
    /\ i_blocks = 1
    /\ block_bitmap = last.pre.block_bitmap \cup {i_block}
    /\ i_block \notin last.pre.block_bitmap
    /\ last.pre.ppos = 0 => (last.ret = 0 /\ i_size = 0 /\ ppos = 0)

\* C19: for every length of size_t and every cursor in range, the length
\* handed to the copy is at most i_size - cursor in a read and at most
\* BLOCK_SIZE - cursor in a write, also when cursor + len wraps.
C19_ClipSurvivesWrap ==
  /\ (IsRead /\ last.pre.i_blocks # 0 /\ last.pre.ppos < last.pre.i_size) =>
       last.n <= last.pre.i_size - last.pre.ppos
  /\ (IsWrite /\ last.aret = 0 /\ last.pre.ppos <= BLOCK_SIZE) =>
       last.n <= BLOCK_SIZE - last.pre.ppos

\* What holds instead: a length that escapes the clamp is above INT_MAX, the
\* copy refuses it without touching the region, and the call returns
\* -EFAULT.
C19_UnclippedIsRefused ==
  /\ (IsRead /\ last.pre.i_blocks # 0 /\ last.pre.ppos < last.pre.i_size
        /\ last.n > last.pre.i_size - last.pre.ppos) =>
       /\ last.pre.ppos + last.len >= SizeRange
       /\ last.n = last.len
       /\ last.n > INT_MAX
       /\ last.touched = {}
       /\ last.ret = EFAULT
  /\ (IsWrite /\ last.aret = 0 /\ last.pre.ppos <= BLOCK_SIZE
        /\ last.n > BLOCK_SIZE - last.pre.ppos) =>
       /\ last.pre.ppos + last.len >= SizeRange
       /\ last.n = last.len
       /\ last.n > INT_MAX
       /\ last.touched = {}
       /\ last.ret = EFAULT

====
